---------------------------- MODULE Spec2Model ----------------------------
(***************************************************************************)
(* A model of meltano's plugin definition model (core/plugin/base.py) and  *)
(* of the selection service (core/select_service.py).                      *)
(*                                                                         *)
(* Python strings whose characters matter (select patterns) are sequences  *)
(* of one-character strings; names that are only compared or concatenated  *)
(* are TLA+ strings.  A Python dict is a function over its set of keys.    *)
(***************************************************************************)
EXTENDS Integers, Sequences, FiniteSets, TLC

VARIABLES
    environment,   \* project.environment: None or the active environment's name
    extras,        \* extras of the two config objects update() can resolve
    saved,         \* what update_plugin / update_environment_plugin persisted
    lastCall,      \* record of the most recent SelectService.update call
    undone,        \* set when the last call removed what the call before added
    cleanInputs    \* every append so far was given well-formed filters

selectVars == <<environment, extras, saved, lastCall, undone, cleanInputs>>

VARIABLES
    pc,            \* where the load_catalog / list_all coroutine stands
    entry,         \* the method the caller invoked
    service,       \* the SelectService instance's own fields
    handleHeld,    \* the invocation handle of invoker.prepared(session) is held
    acquired,      \* handles acquired so far
    released,      \* handles released so far
    frame,         \* the running coroutine's locals and pending exception
    run,           \* what happened during the current / last invocation
    result,        \* what the last finished invocation gave its caller
    invocations    \* invocations started so far

catalogVars == <<pc, entry, service, handleHeld, acquired, released, frame,
                 run, result, invocations>>

VARIABLES
    definition,    \* the PluginDefinition under study
    lookup,        \* the last find_variant / get_variant call and its outcome
    ctor,          \* the arguments the definition was constructed from
    emitted,       \* the (key, value) pairs iterating the definition yielded
    reparsed       \* the definition constructed again from the emitted pairs

pluginVars == <<definition, lookup, ctor, emitted, reparsed>>

vars == <<selectVars, catalogVars, pluginVars>>

(***************************************************************************)
(* Python values                                                           *)
(***************************************************************************)
\* Python's None, kept apart from every string the model uses as a name.
None == "<None>"

\* dict.get(key, default)
DictGet(d, k, default) == IF k \in DOMAIN d THEN d[k] ELSE default

\* d[key] = value
DictSet(d, k, v) == [x \in DOMAIN d \cup {k} |-> IF x = k THEN v ELSE d[x]]

EmptyDict == [x \in {} |-> None]

\* x in list
Contains(s, x) == \E i \in 1..Len(s) : s[i] = x

\* index of the first occurrence of x in s (0 when there is none)
FirstIndex(s, x) ==
    IF Contains(s, x) THEN CHOOSE i \in 1..Len(s) :
                               s[i] = x /\ \A j \in 1..(i - 1) : s[j] # x
    ELSE 0

\* the list without its i-th element
DropAt(s, i) == [j \in 1..(Len(s) - 1) |-> IF j < i THEN s[j] ELSE s[j + 1]]

(***************************************************************************)
(* SelectService                                                           *)
(***************************************************************************)
\* Longest select list the model lets update() build.
MaxSelect == 3

\* Filters a caller passes as entities_filter / attributes_filter.
EntityFilters == {<<"u">>, <<"!", "u">>, <<>>}
AttributeFilters == {<<"*">>, <<"a", ".", "b">>}

\* A filter that names one entity or attribute glob: non-empty, no dot, and
\* not itself starting with the exclusion marker.
WellFormedFilter(f) ==
    /\ f # <<>>
    /\ \A i \in 1..Len(f) : f[i] # "."
    /\ f[1] # "!"

\* The config objects update() may resolve: the bare extractor plugin, and
\* the object environment.get_plugin_config(type, name) returns.
Targets == {"extractor", "environment_plugin"}

get_pattern_string_nodot(entities_filter, attributes_filter, exclude) ==
    (IF exclude THEN <<"!">> ELSE <<>>) \o entities_filter \o attributes_filter

\* _get_pattern_string: f"{exclude}{entities_filter}.{attributes_filter}"
get_pattern_string(entities_filter, attributes_filter, exclude) ==
    (IF exclude THEN <<"!">> ELSE <<>>)
        \o entities_filter \o <<".">> \o attributes_filter

\* the config object update() mutates
resolve_plugin(env) ==
    IF env = None THEN "extractor" ELSE "environment_plugin"

remove_raises_never(patterns, this_pattern) == FALSE

\* list.remove(x) raises ValueError when x is not in the list
remove_raises(patterns, this_pattern) == ~Contains(patterns, this_pattern)

list_remove_all(patterns, this_pattern) ==
    SelectSeq(patterns, LAMBDA p : p # this_pattern)

\* list.remove(x): the list without the first occurrence of x
list_remove(patterns, this_pattern) ==
    IF Contains(patterns, this_pattern)
    THEN DropAt(patterns, FirstIndex(patterns, this_pattern))
    ELSE patterns

\* list.append(x)
list_append(patterns, this_pattern) == Append(patterns, this_pattern)

\* which of the two external update calls persists the change
persist_call_plugin_always(env) == "update_plugin"

persist_call(env) ==
    IF env = None THEN "update_plugin" ELSE "update_environment_plugin"

\* project.plugins.update_plugin(plugin) / update_environment_plugin(plugin):
\* the repository stores the object's extras as they are when it is called.
persist(store, call, ext) ==
    IF call = "update_plugin"
    THEN [store EXCEPT !["extractor"] = ext["extractor"]]
    ELSE [store EXCEPT !["environment_plugin"] = ext["environment_plugin"]]

NoCall ==
    [kind |-> "none", entities_filter |-> <<>>, attributes_filter |-> <<>>,
     exclude |-> FALSE, remove |-> FALSE, raised |-> None,
     before |-> [t \in Targets |-> EmptyDict], calls |-> <<>>,
     saved_before |-> [t \in Targets |-> EmptyDict]]

NotUndone == [active |-> FALSE, before |-> <<>>]

\* The select list a config object holds: extras.get("select", [])
SelectOf(ext, plugin) == DictGet(ext[plugin], "select", <<>>)

\* SelectService.update(entities_filter, attributes_filter, exclude, remove)
update(entities_filter, attributes_filter, exclude, remove) ==
    LET plugin == resolve_plugin(environment)
        this_pattern ==
            get_pattern_string(entities_filter, attributes_filter, exclude)
        patterns == DictGet(extras[plugin], "select", <<>>)
        call == [kind |-> "update", entities_filter |-> entities_filter,
                 attributes_filter |-> attributes_filter,
                 exclude |-> exclude, remove |-> remove, raised |-> None,
                 before |-> extras, calls |-> <<>>, saved_before |-> saved]
    IN  /\ UNCHANGED <<catalogVars, pluginVars>>
        /\ IF remove /\ remove_raises(patterns, this_pattern)
           THEN /\ lastCall' = [call EXCEPT !.raised = "ValueError"]
                /\ undone' = NotUndone
                /\ UNCHANGED <<environment, extras, saved, cleanInputs>>
           ELSE LET new_patterns ==
                        IF remove THEN list_remove(patterns, this_pattern)
                        ELSE list_append(patterns, this_pattern)
                    new_extras ==
                        [extras EXCEPT ![plugin] =
                            DictSet(extras[plugin], "select", new_patterns)]
                IN  /\ Len(new_patterns) <= MaxSelect
                    /\ extras' = new_extras
                    /\ saved' = persist(saved, persist_call(environment),
                                        new_extras)
                    /\ lastCall' =
                           [call EXCEPT !.calls = <<persist_call(environment)>>]
                    /\ undone' =
                           IF /\ remove
                              /\ lastCall.kind = "update"
                              /\ lastCall.raised = None
                              /\ ~lastCall.remove
                              /\ lastCall.entities_filter = entities_filter
                              /\ lastCall.attributes_filter = attributes_filter
                              /\ lastCall.exclude = exclude
                           THEN [active |-> TRUE,
                                 before |-> SelectOf(lastCall.before, plugin)]
                           ELSE NotUndone
                    /\ cleanInputs' =
                           (cleanInputs /\ (remove
                               \/ (WellFormedFilter(entities_filter)
                                   /\ WellFormedFilter(attributes_filter))))
                    /\ UNCHANGED environment

\* The catalog coroutine at rest, for the specifications that do not run it.
CatalogAtRest ==
    /\ pc = "idle"
    /\ entry = None
    /\ service = [project |-> "project", extractor |-> "tap"]
    /\ handleHeld = FALSE
    /\ acquired = 0
    /\ released = 0
    /\ frame = [catalog_json |-> None, pending |-> None]
    /\ run = [dump |-> None, dump_held |-> {}, visited |-> <<>>]
    /\ result = [kind |-> "none", value |-> None, message |-> None]
    /\ invocations = 0

\* No plugin definition under study.
PluginAtRest ==
    /\ definition = [constructed |-> FALSE]
    /\ lookup = [op |-> "none"]
    /\ ctor = [given |-> FALSE]
    /\ emitted = <<>>
    /\ reparsed = [constructed |-> FALSE]

\* SelectService.update at rest, for the specifications that do not call it.
SelectAtRest ==
    /\ environment = None
    /\ extras = [t \in Targets |-> EmptyDict]
    /\ saved = [t \in Targets |-> EmptyDict]
    /\ lastCall = NoCall
    /\ undone = NotUndone
    /\ cleanInputs = TRUE

InitSelect ==
    /\ CatalogAtRest
    /\ PluginAtRest
    /\ environment \in {None, "dev"}
    /\ extras = [t \in Targets |-> EmptyDict]
    /\ saved = extras
    /\ lastCall = NoCall
    /\ undone = NotUndone
    /\ cleanInputs = TRUE

NextSelect ==
    \E e \in EntityFilters, a \in AttributeFilters,
       x \in BOOLEAN, r \in BOOLEAN : update(e, a, x, r)

SpecSelect == InitSelect /\ [][NextSelect]_vars

(***************************************************************************)
(* Properties of SelectService.update                                      *)
(***************************************************************************)
\* the pattern string of the most recent call
LastPattern ==
    get_pattern_string(lastCall.entities_filter, lastCall.attributes_filter,
                       lastCall.exclude)

LastPlugin == IF environment = None THEN "extractor" ELSE "environment_plugin"

OtherPlugin == IF environment = None THEN "environment_plugin" ELSE "extractor"

LastSucceeded == lastCall.kind = "update" /\ lastCall.raised = None

\* the regular expression ^!?[^.]+\.[^.]+$ over a pattern's characters
OneDotInside(s) ==
    \E i \in 2..(Len(s) - 1) :
        /\ s[i] = "."
        /\ \A j \in 1..Len(s) : j # i => s[j] # "."

MatchesShape(p) ==
    \/ OneDotInside(p)
    \/ (p # <<>> /\ p[1] = "!" /\ OneDotInside(Tail(p)))

\* C1 as stated: after update(e, a, x) and an immediately following
\* update(e, a, x, remove=True), the select list is exactly the list before
\* the first call, whatever that list held.
C1_RoundTripRestoresList ==
    undone.active => SelectOf(extras, LastPlugin) = undone.before

\* C1 amended: the append puts the pattern at the end; the remove that
\* follows succeeds and takes out the FIRST occurrence, so the list is the
\* one before the first call when that list did not hold the pattern, and
\* otherwise that list with its first occurrence of the pattern moved to
\* the end.
C1_RoundTripMovesFirstOccurrence ==
    /\ (LastSucceeded /\ ~lastCall.remove) =>
           SelectOf(extras, LastPlugin)
               = Append(SelectOf(lastCall.before, LastPlugin), LastPattern)
    /\ undone.active =>
           /\ lastCall.raised = None
           /\ SelectOf(extras, LastPlugin) =
                  IF Contains(undone.before, LastPattern)
                  THEN Append(DropAt(undone.before,
                                     FirstIndex(undone.before, LastPattern)),
                              LastPattern)
                  ELSE undone.before
           /\ (~Contains(undone.before, LastPattern) =>
                  SelectOf(extras, LastPlugin) = undone.before)

\* a round trip over a list that held the pattern before, ahead of another
C1_Witness ==
    /\ undone.active
    /\ Len(undone.before) = 2
    /\ undone.before[1] = LastPattern
    /\ undone.before[2] # LastPattern

\* C2: a remove of a pattern with no exact match in the target's select
\* list raises the missing-element error, leaves every extras mapping (and
\* the presence of the select key) as it was and calls neither update_plugin
\* nor update_environment_plugin.
C2_RemoveMissingRaises ==
    (/\ lastCall.kind = "update"
     /\ lastCall.remove
     /\ ~Contains(SelectOf(lastCall.before, LastPlugin), LastPattern))
    => /\ lastCall.raised = "ValueError"
       /\ extras = lastCall.before
       /\ lastCall.calls = <<>>
       /\ saved = lastCall.saved_before

\* a failed remove against a non-empty list, and one against an absent key
C2_Witness ==
    /\ lastCall.raised = "ValueError"
    /\ Len(SelectOf(extras, LastPlugin)) = 2
    /\ "select" \notin DOMAIN extras[OtherPlugin]

\* C3: a successful update mutates and persists exactly one config object:
\* the bare extractor through update_plugin when no environment is active,
\* else the environment's plugin config through update_environment_plugin;
\* the other object is untouched and what was persisted is the new list.
C3_PersistsResolvedObject ==
    LastSucceeded =>
        /\ lastCall.calls =
              IF environment = None THEN <<"update_plugin">>
              ELSE <<"update_environment_plugin">>
        /\ extras[OtherPlugin] = lastCall.before[OtherPlugin]
        /\ saved[OtherPlugin] = lastCall.saved_before[OtherPlugin]
        /\ "select" \in DOMAIN extras[LastPlugin]
        /\ extras[LastPlugin] # lastCall.before[LastPlugin]
        /\ saved[LastPlugin] = extras[LastPlugin]

\* a successful update under an active environment
C3_Witness ==
    /\ LastSucceeded
    /\ environment # None
    /\ lastCall.remove
    /\ Len(SelectOf(extras, "environment_plugin")) = 1

\* C6 as stated: every element of every select list matches
\* ^!?[^.]+\.[^.]+$ after any sequence of update calls.
C6_EveryPatternMatchesShape ==
    \A t \in Targets :
        \A i \in 1..Len(SelectOf(extras, t)) :
            MatchesShape(SelectOf(extras, t)[i])

\* C6 amended: update does not validate its filters.  The element it appends
\* is "!" (exactly when exclude was requested) followed by the entities
\* filter, a dot and the attributes filter, as given; every element matches
\* the shape as long as every append was given filters that are non-empty,
\* dot-free and not starting with "!".
C6_WellFormedInputsGiveShape ==
    /\ (LastSucceeded /\ ~lastCall.remove) =>
          LET list == SelectOf(extras, LastPlugin)
              p == list[Len(list)]
          IN  /\ p = (IF lastCall.exclude THEN <<"!">> ELSE <<>>)
                       \o lastCall.entities_filter \o <<".">>
                       \o lastCall.attributes_filter
              /\ (WellFormedFilter(lastCall.entities_filter)
                  /\ WellFormedFilter(lastCall.attributes_filter))
                 => (MatchesShape(p) /\ (p[1] = "!" <=> lastCall.exclude))
    /\ cleanInputs =>
          \A t \in Targets :
              \A i \in 1..Len(SelectOf(extras, t)) :
                  MatchesShape(SelectOf(extras, t)[i])

\* an exclusion pattern built from well-formed filters, in a list whose
\* appends were all well-formed
C6_Witness ==
    /\ cleanInputs
    /\ LastSucceeded /\ ~lastCall.remove /\ lastCall.exclude
    /\ Len(SelectOf(extras, LastPlugin)) = 2

(***************************************************************************)
(* Plugin definitions: PluginType, Variant, PluginDefinition               *)
(***************************************************************************)
\* Optional[bool] values, held as strings so that they compare with None.
PyTrue == "True"
PyFalse == "False"

\* Python truthiness of None, a bool or a str
Truthy(x) == x \notin {None, PyFalse, ""}

\* str(x) inside an f-string
Str(x) == IF x = None THEN "None" ELSE x

\* the dict without / with only the given keys
Without(d, keys) == [k \in (DOMAIN d) \ keys |-> d[k]]

PluginTypes == {"extractors", "loaders", "transforms", "models", "dashboards",
                "orchestrators", "transformers", "files"}

\* PluginType.singular: self.value[:-1]
singular(t) ==
    CASE t = "extractors" -> "extractor"
      [] t = "loaders" -> "loader"
      [] t = "transforms" -> "transform"
      [] t = "models" -> "model"
      [] t = "dashboards" -> "dashboard"
      [] t = "orchestrators" -> "orchestrator"
      [] t = "transformers" -> "transformer"
      [] t = "files" -> "file"

\* PluginType.descriptor
descriptor(t) == IF t = "files" THEN "file bundle" ELSE singular(t)

\* str.capitalize() on the descriptors
capitalize(word) ==
    CASE word = "extractor" -> "Extractor"
      [] word = "loader" -> "Loader"
      [] word = "transform" -> "Transform"
      [] word = "model" -> "Model"
      [] word = "dashboard" -> "Dashboard"
      [] word = "orchestrator" -> "Orchestrator"
      [] word = "transformer" -> "Transformer"
      [] word = "file bundle" -> "File bundle"

ORIGINAL_NAME == "original"
DEFAULT_NAME == "default"

\* The keyword parameters of Variant.__init__ other than **extras.
ScalarFields == {"name", "original", "deprecated", "docs", "repo", "pip_url",
                 "executable"}
ListFields == {"capabilities", "settings_group_validation", "settings"}
VariantFields == ScalarFields \cup ListFields

\* The keys PluginRef.set_presentation_attrs pops.
PresentationKeys == {"hidden", "label", "logo_url", "description"}

\* SettingDefinition.parse: an instance is kept, a mapping becomes an instance
setting_parse(obj) ==
    IF "cls" \in DOMAIN obj THEN obj
    ELSE [cls |-> "SettingDefinition", attrs |-> obj]

\* Variant.__init__(name=None, ..., settings=[], **extras)
Variant(kw) ==
    [cls |-> "Variant",
     name |-> DictGet(kw, "name", None),
     original |-> DictGet(kw, "original", None),
     deprecated |-> DictGet(kw, "deprecated", None),
     docs |-> DictGet(kw, "docs", None),
     repo |-> DictGet(kw, "repo", None),
     pip_url |-> DictGet(kw, "pip_url", None),
     executable |-> DictGet(kw, "executable", None),
     capabilities |-> DictGet(kw, "capabilities", <<>>),
     settings_group_validation |->
         DictGet(kw, "settings_group_validation", <<>>),
     settings |->
         LET given == DictGet(kw, "settings", <<>>)
         IN  [i \in 1..Len(given) |-> setting_parse(given[i])],
     extras |-> Without(kw, VariantFields)]

\* Variant.parse (Canonical.parse): an instance is kept, a mapping is
\* passed to the constructor as keywords
variant_parse(obj) ==
    IF "cls" \in DOMAIN obj THEN obj ELSE Variant(obj)

implicit_variant_keeps_extras(variant) == variant

\* `variant.extras = {}` on the implicit variant
implicit_variant(variant) == [variant EXCEPT !.extras = EmptyDict]

\* PluginDefinition.__init__(plugin_type, name, namespace, variant=None,
\*                           variants=[], **extras)
PluginDefinitionInit(plugin_type, name, namespace, variant, variants, kw) ==
    LET synthesized == Variant(DictSet(kw, "name", variant))
        extras_1 == IF variants = <<>> THEN synthesized.extras ELSE kw
        variants_1 == IF variants = <<>>
                      THEN <<implicit_variant(synthesized)>>
                      ELSE variants
    IN  [constructed |-> TRUE,
         type |-> plugin_type,
         name |-> name,
         namespace |-> namespace,
         hidden |-> DictGet(extras_1, "hidden", None),
         label |-> DictGet(extras_1, "label", None),
         logo_url |-> DictGet(extras_1, "logo_url", None),
         description |-> DictGet(extras_1, "description", None),
         extras |-> Without(extras_1, PresentationKeys),
         variants |->
             [i \in 1..Len(variants_1) |-> variant_parse(variants_1[i])]]

Return(v) == [kind |-> "return", value |-> v]

annotation_both(i, variant) ==
    (IF i = 1 THEN " (default)" ELSE "")
        \o (IF Truthy(variant.deprecated) THEN " (deprecated)" ELSE "")

\* list_variant_names: `if i == 0: ... elif variant.deprecated: ...`
\* (Python's index 0 is index 1 here)
annotation(i, variant) ==
    IF i = 1 THEN " (default)"
    ELSE IF Truthy(variant.deprecated) THEN " (deprecated)"
    ELSE ""

\* name = variant.name or Variant.ORIGINAL_NAME
shown_name(variant) ==
    IF Truthy(variant.name) THEN variant.name ELSE ORIGINAL_NAME

RECURSIVE join(_, _)
\* sep.join(names)
join(sep, names) ==
    IF names = <<>> THEN ""
    ELSE IF Len(names) = 1 THEN names[1]
    ELSE names[1] \o sep \o join(sep, Tail(names))

\* PluginDefinition.list_variant_names
list_variant_names(plugin) ==
    join(", ", [i \in 1..Len(plugin.variants) |->
                   shown_name(plugin.variants[i])
                       \o annotation(i, plugin.variants[i])])

\* VariantNotFoundError(plugin, variant_name)
VariantNotFoundError(plugin, variant_name) ==
    [kind |-> "raise",
     error |-> "VariantNotFoundError",
     plugin |-> plugin,
     variant_name |-> variant_name,
     message |->
         capitalize(descriptor(plugin.type)) \o " '" \o plugin.name
             \o "' variant '" \o Str(variant_name)
             \o "' is not known to Meltano. "
             \o "Variants: " \o list_variant_names(plugin)]

\* utils.find_named: the first element with that name, or NotFound
find_named(xs, name) ==
    IF \E i \in 1..Len(xs) : xs[i].name = name
    THEN [found |-> TRUE,
          value |-> xs[CHOOSE i \in 1..Len(xs) :
                          /\ xs[i].name = name
                          /\ \A j \in 1..(i - 1) : xs[j].name # name]]
    ELSE [found |-> FALSE]

\* PluginDefinition.get_variant
get_variant(plugin, variant_name) ==
    LET hit == find_named(plugin.variants, variant_name)
    IN  IF hit.found THEN Return(hit.value)
        ELSE VariantNotFoundError(plugin, variant_name)

\* Selectors of find_variant: a Variant instance, or a name (None included).
AsVariant(v) == [kind |-> "variant", value |-> v]
AsName(n) == [kind |-> "name", value |-> n]

find_variant_without_sentinels(plugin, variant_or_name) ==
    IF variant_or_name.kind = "variant" THEN Return(variant_or_name.value)
    ELSE IF variant_or_name.value = None THEN Return(plugin.variants[1])
    ELSE get_variant(plugin, variant_or_name.value)

\* PluginDefinition.find_variant
find_variant(plugin, variant_or_name) ==
    IF variant_or_name.kind = "variant" THEN Return(variant_or_name.value)
    ELSE IF \/ variant_or_name.value = None
            \/ variant_or_name.value = DEFAULT_NAME
    THEN Return(plugin.variants[1])
    ELSE IF variant_or_name.value = ORIGINAL_NAME
    THEN IF \E i \in 1..Len(plugin.variants) :
                Truthy(plugin.variants[i].original)
         THEN Return(plugin.variants[
                  CHOOSE i \in 1..Len(plugin.variants) :
                      /\ Truthy(plugin.variants[i].original)
                      /\ \A j \in 1..(i - 1) :
                             ~Truthy(plugin.variants[j].original)])
         ELSE Return(plugin.variants[1])
    ELSE get_variant(plugin, variant_or_name.value)

(***************************************************************************)
(* Variant lookup on a constructed definition                              *)
(***************************************************************************)
\* Longest explicit variants list a definition is constructed from.
MaxVariants == 2

VariantNames == {None, DEFAULT_NAME, ORIGINAL_NAME, "v1"}

\* Entries of an explicit `variants` list, as a manifest gives them.
VariantDicts ==
    {[name |-> n, original |-> o, deprecated |-> d] :
        n \in VariantNames, o \in {None, PyTrue}, d \in {None, PyTrue}}

VariantLists ==
    UNION {[1..n -> VariantDicts] : n \in 1..MaxVariants}

\* A Variant that belongs to no definition under study.
ForeignVariant == Variant([name |-> "foreign", pip_url |-> "elsewhere"])

LookupNames == VariantNames \cup {"missing"}

FindVariant(selector) ==
    /\ definition.constructed
    /\ lookup' = [op |-> "find_variant", selector |-> selector,
                  outcome |-> find_variant(definition, selector)]
    /\ UNCHANGED <<definition, ctor, emitted, reparsed>>
    /\ UNCHANGED <<selectVars, catalogVars>>

GetVariant(variant_name) ==
    /\ definition.constructed
    /\ lookup' = [op |-> "get_variant", selector |-> AsName(variant_name),
                  outcome |-> get_variant(definition, variant_name)]
    /\ UNCHANGED <<definition, ctor, emitted, reparsed>>
    /\ UNCHANGED <<selectVars, catalogVars>>

InitVariants ==
    /\ SelectAtRest
    /\ CatalogAtRest
    /\ \E t \in {"extractors", "files"}, vs \in VariantLists :
           definition =
               PluginDefinitionInit(t, "tap-x", "tap_x", None, vs, EmptyDict)
    /\ lookup = [op |-> "none"]
    /\ ctor = [given |-> FALSE]
    /\ emitted = <<>>
    /\ reparsed = [constructed |-> FALSE]

NextVariants ==
    \/ \E n \in LookupNames : FindVariant(AsName(n))
    \/ \E v \in {ForeignVariant, definition.variants[Len(definition.variants)]} :
           FindVariant(AsVariant(v))
    \/ \E n \in LookupNames : GetVariant(n)

SpecVariants == InitVariants /\ [][NextVariants]_vars

(***************************************************************************)
(* Properties of find_variant / get_variant                                *)
(***************************************************************************)
Variants == definition.variants

\* index of the first variant with that name / flagged original (0: none)
FirstNamed(n) ==
    IF \E i \in 1..Len(Variants) : Variants[i].name = n
    THEN CHOOSE i \in 1..Len(Variants) :
             /\ Variants[i].name = n
             /\ \A j \in 1..(i - 1) : Variants[j].name # n
    ELSE 0

FirstOriginal ==
    IF \E i \in 1..Len(Variants) : Variants[i].original = PyTrue
    THEN CHOOSE i \in 1..Len(Variants) :
             /\ Variants[i].original = PyTrue
             /\ \A j \in 1..(i - 1) : Variants[j].original # PyTrue
    ELSE 0

\* C7: find_variant returns a Variant instance unchanged; None and "default"
\* give variants[0]; "original" gives the first variant flagged original, or
\* variants[0] when none is; any other string is an exact-name lookup that
\* raises variant-not-found when no variant has the name.  The sentinels win
\* over variants literally named "default" or "original".
C7_FindVariantResolutionOrder ==
    lookup.op = "find_variant" =>
        LET sel == lookup.selector
            out == lookup.outcome
        IN  IF sel.kind = "variant" THEN out = Return(sel.value)
            ELSE IF sel.value \in {None, "default"}
            THEN out = Return(Variants[1])
            ELSE IF sel.value = "original"
            THEN out = Return(Variants[IF FirstOriginal = 0 THEN 1
                                       ELSE FirstOriginal])
            ELSE IF FirstNamed(sel.value) # 0
            THEN out = Return(Variants[FirstNamed(sel.value)])
            ELSE /\ out.kind = "raise"
                 /\ out.error = "VariantNotFoundError"
                 /\ out.variant_name = sel.value

\* "default" asked of a definition whose second variant is named "default"
C7_Witness ==
    /\ lookup.op = "find_variant"
    /\ lookup.selector = AsName("default")
    /\ Len(Variants) = 2
    /\ Variants[2].name = "default"
    /\ Variants[1].name = "v1"
    /\ lookup.outcome = Return(Variants[1])

MessageHead ==
    capitalize(descriptor(definition.type)) \o " '" \o definition.name
        \o "' variant '" \o Str(lookup.selector.value)
        \o "' is not known to Meltano. Variants: "

ShownName(i) ==
    IF Variants[i].name \in {None, ""} THEN "original" ELSE Variants[i].name

\* C8 as stated: the message of variant-not-found lists every variant in
\* declaration order, "(default)" on the one at index 0 and "(deprecated)"
\* on every one flagged deprecated, the one at index 0 included.
C8_MessageAnnotatesEveryDeprecated ==
    (lookup.op = "get_variant" /\ FirstNamed(lookup.selector.value) = 0) =>
        /\ lookup.outcome.kind = "raise"
        /\ lookup.outcome.message =
              MessageHead \o join(", ",
                  [i \in 1..Len(Variants) |->
                      ShownName(i)
                          \o (IF i = 1 THEN " (default)" ELSE "")
                          \o (IF Variants[i].deprecated = PyTrue
                              THEN " (deprecated)" ELSE "")])

\* C8 amended: get_variant of an unknown name raises variant-not-found with
\* the definition and the name; the message lists every variant in
\* declaration order (an unnamed one as "original"), "(default)" on the one
\* at index 0 and "(deprecated)" on every flagged one AFTER index 0: a
\* deprecated variant at index 0 is shown as "(default)" only.
C8_MessageAnnotatesDefaultElseDeprecated ==
    (lookup.op = "get_variant" /\ FirstNamed(lookup.selector.value) = 0) =>
        /\ lookup.outcome.kind = "raise"
        /\ lookup.outcome.error = "VariantNotFoundError"
        /\ lookup.outcome.plugin = definition
        /\ lookup.outcome.variant_name = lookup.selector.value
        /\ lookup.outcome.message =
              MessageHead \o join(", ",
                  [i \in 1..Len(Variants) |->
                      ShownName(i)
                          \o (IF i = 1 THEN " (default)" ELSE "")
                          \o (IF i > 1 /\ Variants[i].deprecated = PyTrue
                              THEN " (deprecated)" ELSE "")])

\* an unknown name asked of a definition whose default variant is deprecated
\* and whose second, unnamed variant is deprecated too
C8_Witness ==
    /\ lookup.op = "get_variant"
    /\ lookup.selector.value = "missing"
    /\ lookup.outcome.kind = "raise"
    /\ Len(Variants) = 2
    /\ Variants[1].deprecated = PyTrue
    /\ Variants[2].deprecated = PyTrue
    /\ Variants[2].name = None

(***************************************************************************)
(* Construction and iteration of a PluginDefinition                        *)
(***************************************************************************)
\* Longest explicit variants list given to the constructor.
MaxExplicit == 2

RECURSIVE dict_items(_)
\* dict.items(): the (key, value) pairs of a mapping
dict_items(d) ==
    IF DOMAIN d = {} THEN <<>>
    ELSE LET key == CHOOSE k \in DOMAIN d : TRUE
         IN  <<[k |-> key, v |-> d[key]]>> \o dict_items(Without(d, {key}))

\* dict(pairs): a later pair with the same key replaces an earlier one
to_dict(pairs) ==
    [key \in {pairs[i].k : i \in 1..Len(pairs)} |->
        pairs[CHOOSE i \in 1..Len(pairs) :
                 /\ pairs[i].k = key
                 /\ \A j \in (i + 1)..Len(pairs) : pairs[j].k # key].v]

\* Canonical.__iter__ leaves out attributes that are not set
is_set(pair) ==
    IF pair.k \in ListFields \cup {"variants"} THEN pair.v # <<>>
    ELSE pair.v # None

Pair(key, value) == [k |-> key, v |-> value]

\* Canonical.__iter__ on a Variant: its attributes in declaration order,
\* its extras inline
canonical_iter_variant(variant) ==
    SelectSeq(
        <<Pair("name", variant.name), Pair("original", variant.original),
          Pair("deprecated", variant.deprecated), Pair("docs", variant.docs),
          Pair("repo", variant.repo), Pair("pip_url", variant.pip_url),
          Pair("executable", variant.executable),
          Pair("capabilities", variant.capabilities),
          Pair("settings_group_validation",
               variant.settings_group_validation),
          Pair("settings", variant.settings)>>
            \o dict_items(variant.extras),
        is_set)

\* Canonical.__iter__ on a PluginDefinition
canonical_iter_definition(plugin) ==
    SelectSeq(
        <<Pair("name", plugin.name), Pair("namespace", plugin.namespace),
          Pair("hidden", plugin.hidden), Pair("label", plugin.label),
          Pair("logo_url", plugin.logo_url),
          Pair("description", plugin.description)>>
            \o dict_items(plugin.extras)
            \o <<Pair("variants", plugin.variants)>>,
        is_set)

flattened_key_unrenamed(variant_k) == variant_k

\* `if variant_k == "name": variant_k = "variant"`
flattened_key(variant_k) ==
    IF variant_k = "name" THEN "variant" ELSE variant_k

\* the pairs PluginDefinition.__iter__ yields for one pair of super().__iter__()
yielded_for(pair) ==
    IF pair.k = "variants" /\ Len(pair.v) = 1
    THEN LET inner == canonical_iter_variant(pair.v[1])
         IN  [i \in 1..Len(inner) |->
                 Pair(flattened_key(inner[i].k), inner[i].v)]
    ELSE <<pair>>

RECURSIVE yield_all(_)
yield_all(pairs) ==
    IF pairs = <<>> THEN <<>>
    ELSE yielded_for(Head(pairs)) \o yield_all(Tail(pairs))

\* PluginDefinition.__iter__
PluginDefinitionIter(plugin) == yield_all(canonical_iter_definition(plugin))

\* PluginDefinition(plugin_type, **dict(pairs))
reconstruct(plugin_type, pairs) ==
    LET d == to_dict(pairs)
    IN  PluginDefinitionInit(plugin_type, d["name"], d["namespace"],
                             DictGet(d, "variant", None),
                             DictGet(d, "variants", <<>>),
                             Without(d, {"name", "namespace", "variant",
                                         "variants"}))

\* Flat keywords a manifest entry may carry, each with the value it has.
FlatKeys == {"pip_url", "label", "foo", "settings"}

FlatValue(key) ==
    CASE key = "pip_url" -> "git+https://example/tap.git"
      [] key = "label" -> "Tap"
      [] key = "foo" -> "bar"
      [] key = "settings" -> <<[name |-> "token"]>>

FlatKeywords == {[key \in ks |-> FlatValue(key)] : ks \in SUBSET FlatKeys}

\* Entries of an explicit `variants` list.
ExplicitVariantDicts ==
    {EmptyDict,
     [name |-> "v1"],
     [name |-> "v1", pip_url |-> "git+https://example/v1.git"],
     [name |-> "v1", foo |-> "own"],
     [name |-> "v2", deprecated |-> PyTrue]}

ExplicitVariantLists ==
    UNION {[1..n -> ExplicitVariantDicts] : n \in 0..MaxExplicit}

Construct(variant, variants, kw) ==
    /\ ~ctor.given
    /\ ctor' = [given |-> TRUE, variant |-> variant, variants |-> variants,
                kw |-> kw]
    /\ definition' = PluginDefinitionInit("extractors", "tap-x", "tap_x",
                                          variant, variants, kw)
    /\ UNCHANGED <<lookup, emitted, reparsed>>
    /\ UNCHANGED <<selectVars, catalogVars>>

Iterate ==
    /\ definition.constructed
    /\ emitted = <<>>
    /\ emitted' = PluginDefinitionIter(definition)
    /\ UNCHANGED <<definition, lookup, ctor, reparsed>>
    /\ UNCHANGED <<selectVars, catalogVars>>

Reconstruct ==
    /\ emitted # <<>>
    /\ ~reparsed.constructed
    /\ reparsed' = reconstruct(definition.type, emitted)
    /\ UNCHANGED <<definition, lookup, ctor, emitted>>
    /\ UNCHANGED <<selectVars, catalogVars>>

InitDefinition == SelectAtRest /\ CatalogAtRest /\ PluginAtRest

NextDefinition ==
    \/ \E variant \in {None, "v1"}, variants \in ExplicitVariantLists,
          kw \in FlatKeywords : Construct(variant, variants, kw)
    \/ Iterate
    \/ Reconstruct

SpecDefinition == InitDefinition /\ [][NextDefinition]_vars

(***************************************************************************)
(* Properties of construction and iteration                                *)
(***************************************************************************)
\* C9: a constructed definition always has a variant; without an explicit
\* variants list exactly one is synthesized from the flat fields: it is
\* named by `variant`, carries the flat keywords that are Variant fields and
\* has empty extras, while every other flat keyword is in the definition's
\* extras, except the presentation keys, which become attributes.
C9_ImplicitVariantFromFlatFields ==
    ctor.given =>
        /\ Len(definition.variants) >= 1
        /\ ctor.variants = <<>> =>
              LET v == definition.variants[1]
              IN  /\ Len(definition.variants) = 1
                  /\ v.name = ctor.variant
                  /\ v.pip_url = DictGet(ctor.kw, "pip_url", None)
                  /\ Len(v.settings) = Len(DictGet(ctor.kw, "settings", <<>>))
                  /\ v.extras = EmptyDict
                  /\ definition.extras =
                        Without(ctor.kw, VariantFields \cup PresentationKeys)
                  /\ definition.label = DictGet(ctor.kw, "label", None)
                  /\ definition.hidden = None

\* the spec's example: variant "v1", a pip_url and the unrecognized key foo
C9_Witness ==
    /\ ctor.given
    /\ ctor.variants = <<>>
    /\ ctor.variant = "v1"
    /\ DOMAIN ctor.kw = {"pip_url", "foo", "label"}
    /\ definition.extras = [foo |-> "bar"]

SingleVariantRoundTrip ==
    /\ reparsed.constructed
    /\ Len(definition.variants) = 1

MaxInvocations == 2

\* Texts invoker.dump("catalog") may hand back.
DumpTexts == {"{}", "[]", "{"}

\* json.loads("{}") and json.loads("[]")
JsonObject == [json |-> "object", members |-> <<>>]
JsonArray == [json |-> "array", members |-> <<>>]

\* Exceptions the external dump (or the acquisition) may raise.
DumpErrors == {"FileNotFoundError", "CalledProcessError"}

\* the diagnostic of list_all (its backquotes written as apostrophes)
CouldNotFindCatalog ==
    "Could not find catalog. Verify that the tap supports discovery "
        \o "mode and advertises the 'discover' capability as well as either "
        \o "'catalog' or 'properties'"

\* json.loads on the texts above: the parsed document, or JSONDecodeError
json_loads(text) ==
    CASE text = "{}" -> [ok |-> TRUE, value |-> JsonObject]
      [] text = "[]" -> [ok |-> TRUE, value |-> JsonArray]
      [] OTHER -> [ok |-> FALSE, value |-> "JSONDecodeError"]

EmptyFrame == [catalog_json |-> None, pending |-> None]

NoRun == [dump |-> None, dump_held |-> {}, visited |-> <<>>]

NoResult == [kind |-> "none", value |-> None, message |-> None]

Raise(exc) == [kind |-> "raise", value |-> exc, message |-> None]

exit_releases_on_success_only(pending) == pending = None

\* `async with invoker.prepared(session)`: leaving the block runs the
\* context manager's exit whether the body returned or raised
exit_releases(pending) == TRUE

list_all_except_everything(exc) ==
    [kind |-> "raise", value |-> "PluginExecutionError",
     message |-> CouldNotFindCatalog]

\* list_all's handler: `except FileNotFoundError` and nothing else
list_all_except(exc) ==
    IF exc = "FileNotFoundError"
    THEN [kind |-> "raise", value |-> "PluginExecutionError",
          message |-> CouldNotFindCatalog]
    ELSE Raise(exc)

\* the caller awaits load_catalog(session) or list_all(session)
Invoke(method) ==
    /\ pc = "idle"
    /\ invocations < MaxInvocations
    /\ invocations' = invocations + 1
    /\ entry' = method
    /\ frame' = EmptyFrame
    /\ run' = NoRun
    /\ result' = NoResult
    /\ pc' = "prepare"
    /\ UNCHANGED <<service, handleHeld, acquired, released>>
    /\ UNCHANGED <<selectVars, pluginVars>>

\* entering `async with invoker.prepared(session)`
Prepare ==
    /\ pc = "prepare"
    /\ handleHeld' = TRUE
    /\ acquired' = acquired + 1
    /\ pc' = "with_body"
    /\ UNCHANGED <<entry, service, released, frame, run, result, invocations>>
    /\ UNCHANGED <<selectVars, pluginVars>>

\* the acquisition itself fails: no handle is held, the error leaves
PrepareRaises(exc) ==
    /\ pc = "prepare"
    /\ frame' = [frame EXCEPT !.pending = exc]
    /\ run' = [run EXCEPT !.dump = exc]
    /\ pc' = "unwind"
    /\ UNCHANGED <<entry, service, handleHeld, acquired, released, result,
                   invocations>>
    /\ UNCHANGED <<selectVars, pluginVars>>

\* `await invoker.dump("catalog")` starts and suspends
StartDump ==
    /\ pc = "with_body"
    /\ run' = [run EXCEPT !.dump_held = @ \cup {handleHeld}]
    /\ pc' = "dumping"
    /\ UNCHANGED <<entry, service, handleHeld, acquired, released, frame,
                   result, invocations>>
    /\ UNCHANGED <<selectVars, pluginVars>>

DumpReturns(text) ==
    /\ pc = "dumping"
    /\ frame' = [frame EXCEPT !.catalog_json = text]
    /\ run' = [run EXCEPT !.dump = "returned"]
    /\ pc' = "aexit"
    /\ UNCHANGED <<entry, service, handleHeld, acquired, released, result,
                   invocations>>
    /\ UNCHANGED <<selectVars, pluginVars>>

DumpRaises(exc) ==
    /\ pc = "dumping"
    /\ frame' = [frame EXCEPT !.pending = exc]
    /\ run' = [run EXCEPT !.dump = exc]
    /\ pc' = "aexit"
    /\ UNCHANGED <<entry, service, handleHeld, acquired, released, result,
                   invocations>>
    /\ UNCHANGED <<selectVars, pluginVars>>

\* the caller is cancelled while the dump is suspended
Cancel ==
    /\ pc = "dumping"
    /\ frame' = [frame EXCEPT !.pending = "CancelledError"]
    /\ run' = [run EXCEPT !.dump = "CancelledError"]
    /\ pc' = "aexit"
    /\ UNCHANGED <<entry, service, handleHeld, acquired, released, result,
                   invocations>>
    /\ UNCHANGED <<selectVars, pluginVars>>

\* control leaves the `async with` block
LeaveWith ==
    /\ pc = "aexit"
    /\ IF exit_releases(frame.pending)
       THEN handleHeld' = FALSE /\ released' = released + 1
       ELSE UNCHANGED <<handleHeld, released>>
    /\ pc' = IF frame.pending = None THEN "parse" ELSE "unwind"
    /\ UNCHANGED <<entry, service, acquired, frame, run, result, invocations>>
    /\ UNCHANGED <<selectVars, pluginVars>>

\* `return json.loads(catalog_json)` when the caller invoked load_catalog
LoadCatalogReturns ==
    /\ pc = "parse"
    /\ entry = "load_catalog"
    /\ LET parsed == json_loads(frame.catalog_json)
       IN  IF parsed.ok
           THEN /\ result' = [kind |-> "return", value |-> parsed.value,
                              message |-> None]
                /\ frame' = EmptyFrame
                /\ pc' = "idle"
           ELSE /\ frame' = [frame EXCEPT !.pending = parsed.value]
                /\ pc' = "unwind"
                /\ UNCHANGED result
    /\ UNCHANGED <<entry, service, handleHeld, acquired, released, run,
                   invocations>>
    /\ UNCHANGED <<selectVars, pluginVars>>

\* list_all: catalog = await load_catalog(session); list_all.visit(catalog)
ListAllVisits ==
    /\ pc = "parse"
    /\ entry = "list_all"
    /\ LET parsed == json_loads(frame.catalog_json)
       IN  IF parsed.ok
           THEN /\ run' = [run EXCEPT !.visited = Append(@, parsed.value)]
                /\ result' = [kind |-> "return",
                              value |-> "ListSelectedExecutor",
                              message |-> None]
                /\ frame' = EmptyFrame
                /\ pc' = "idle"
           ELSE /\ frame' = [frame EXCEPT !.pending = parsed.value]
                /\ pc' = "unwind"
                /\ UNCHANGED <<run, result>>
    /\ UNCHANGED <<entry, service, handleHeld, acquired, released,
                   invocations>>
    /\ UNCHANGED <<selectVars, pluginVars>>

\* an exception leaves load_catalog; list_all's handler sees it on the way
Unwind ==
    /\ pc = "unwind"
    /\ result' = IF entry = "list_all" THEN list_all_except(frame.pending)
                 ELSE Raise(frame.pending)
    /\ frame' = EmptyFrame
    /\ pc' = "idle"
    /\ UNCHANGED <<entry, service, handleHeld, acquired, released, run,
                   invocations>>
    /\ UNCHANGED <<selectVars, pluginVars>>

InitCatalog == SelectAtRest /\ CatalogAtRest /\ PluginAtRest

NextCatalog ==
    \/ \E m \in {"load_catalog", "list_all"} : Invoke(m)
    \/ Prepare
    \/ \E exc \in DumpErrors : PrepareRaises(exc)
    \/ StartDump
    \/ \E text \in DumpTexts : DumpReturns(text)
    \/ \E exc \in DumpErrors : DumpRaises(exc)
    \/ Cancel
    \/ LeaveWith
    \/ LoadCatalogReturns
    \/ ListAllVisits
    \/ Unwind

SpecCatalog == InitCatalog /\ [][NextCatalog]_vars

(***************************************************************************)
(* Properties of load_catalog / list_all                                   *)
(***************************************************************************)
Finished == pc = "idle" /\ result.kind # "none"

\* C4: the handle acquired with invoker.prepared(session) is released on
\* every exit path (dump returned, dump raised, caller cancelled during the
\* dump); dump is only called while the handle is held; after a failure the
\* service keeps nothing of the attempt.
C4_HandleReleasedOnEveryPath ==
    /\ pc \in {"idle", "parse", "unwind", "prepare"} =>
           (~handleHeld /\ acquired = released)
    /\ pc \in {"with_body", "dumping", "aexit"} =>
           (handleHeld /\ acquired = released + 1)
    /\ run.dump_held \subseteq {TRUE}
    /\ service = [project |-> "project", extractor |-> "tap"]
    /\ (Finished /\ result.kind = "raise") =>
           (frame = EmptyFrame /\ run.visited = <<>>)

\* a cancelled dump after which the handle is free again
C4_Witness ==
    /\ Finished
    /\ result.kind = "raise"
    /\ result.value = "CancelledError"
    /\ run.dump_held = {TRUE}
    /\ ~handleHeld
    /\ released = 1

\* C5: list_all turns a FileNotFoundError of the dump into a plugin-execution
\* error with the fixed diagnostic and never visits; on success it visits
\* exactly once, with the parsed catalog; any other failure reaches the
\* caller unchanged.
C5_ListAllErrorTranslation ==
    (Finished /\ entry = "list_all") =>
        /\ run.dump = "FileNotFoundError" =>
              /\ result = [kind |-> "raise",
                           value |-> "PluginExecutionError",
                           message |-> CouldNotFindCatalog]
              /\ run.visited = <<>>
        /\ result.kind = "return" =>
              /\ run.dump = "returned"
              /\ Len(run.visited) = 1
              /\ run.visited[1] \in {JsonObject, JsonArray}
        /\ run.dump \in {"CalledProcessError", "CancelledError"} =>
              (result = Raise(run.dump) /\ run.visited = <<>>)
        /\ (run.dump = "returned" /\ result.kind = "raise") =>
              (result = Raise("JSONDecodeError") /\ run.visited = <<>>)

\* a dump whose text does not parse, seen by list_all's caller as it is
C5_Witness ==
    /\ Finished
    /\ entry = "list_all"
    /\ run.dump = "returned"
    /\ result = Raise("JSONDecodeError")

=============================================================================
